---- MODULE Spec2Model ----
(***************************************************************************)
(* A model of tetrust: the board (Blocks / Grid), the falling piece        *)
(* (Tetrinome), the frame timer driving the line-clear animation and the   *)
(* callbacks of the game loop (event, update, draw).                       *)
(*                                                                         *)
(* Time is kept in half-milliseconds so that MILLIS_PER_UPDATE (62.5 ms)   *)
(* and the frame duration (187.5 ms) are integers.  Option<T> is modelled  *)
(* as a sequence: <<>> is None and <<v>> is Some(v).  Arrays and Vec's     *)
(* indexed by position are functions on 0..n-1, as in the source.          *)
(***************************************************************************)
EXTENDS Integers, Sequences, FiniteSets, TLC

VARIABLES
    data,          \* Blocks::data: Vec<Option<Block>>
    rows_full,     \* Blocks::rows_full: Vec<i16>
    curr_piece,    \* Grid::curr_piece
    instant_drop,  \* Grid::instant_drop: Option<InstantDrop>
    fall_update,   \* Timer::fall_update
    ELAPSED,       \* timing::ELAPSED (static mut)
    steps,         \* number of callbacks run since Init (bounded by MaxSteps)
    last_call,     \* the callback run last: [op, dir, rot]
    stale,         \* entries at the front of rows_full queued before the last Blocks::clear
    ft,            \* a FrameTimer on its own (timer specification)
    calls,         \* number of state() calls made on ft
    uniform,       \* every state() call on ft so far passed MILLIS_PER_UPDATE
    last_state,    \* Option<FrameState>: what the last state() call on ft returned
    readies,       \* number of state() calls on ft that returned Ready
    converted,     \* the Collision handed to a Collision -> Direction conversion
    call_stack,    \* the frames of that conversion: the functions entered and not returned
    returned       \* Option<Direction>: what the conversion returned

vars == <<data, rows_full, curr_piece, instant_drop, fall_update, ELAPSED, steps, last_call, stale,
          ft, calls, uniform, last_state, readies, converted, call_stack, returned>>

gameVars == <<data, rows_full, curr_piece, instant_drop, fall_update, ELAPSED, steps, last_call, stale>>
timerVars == <<ft, calls, uniform, last_state, readies>>
convVars == <<converted, call_stack, returned>>

---------------------------------------------------------------------------
(* Bounds of the model *)

MaxSteps == 2      \* callbacks explored after each initial scenario
NumKinds == 1      \* Tetrinome::new draws from the first NumKinds entries of PIECES
MaxCalls == 50     \* state() calls made on the stand-alone timer
MaxFrames == 3     \* frame counts of the generic stand-alone timers

---------------------------------------------------------------------------
(* Option<T> *)

None == <<>>
Some(v) == <<v>>
IsSome(o) == o # <<>>
Unwrap(o) == o[1]

Min(S) == CHOOSE m \in S : \A n \in S : m <= n
Max(S) == CHOOSE m \in S : \A n \in S : m >= n

---------------------------------------------------------------------------
(* timing.rs *)

SECOND == 1000 * 2
UPDATES_PER_SEC == 16
MILLIS_PER_UPDATE == SECOND \div UPDATES_PER_SEC
FALL_RATE == SECOND \div 2

\* set_elapsed: the new value of ELAPSED
set_elapsed(elapsed) == elapsed

\* Timer::update: set_elapsed(MILLIS_PER_UPDATE); fall_update += get_elapsed()
timer_update(fu) ==
    LET e == set_elapsed(MILLIS_PER_UPDATE)
    IN [ELAPSED |-> e, fall_update |-> fu + e]

\* A faulty fall: the piece falls as soon as the fall rate is reached
timer_fall_early(fu) ==
    IF fu >= FALL_RATE THEN [ret |-> TRUE, fall_update |-> 0]
    ELSE [ret |-> FALSE, fall_update |-> fu]

\* Timer::fall: returns [ret, fall_update]
timer_fall(fu) ==
    IF fu > FALL_RATE THEN [ret |-> TRUE, fall_update |-> 0]
    ELSE [ret |-> FALSE, fall_update |-> fu]

---------------------------------------------------------------------------
(* animation.rs: FrameTimer *)

init_frameless(delay) == [frames |-> <<>>, delay |-> delay, last_update |-> 0, next |-> 0]
set_frames(t, vec) == [t EXCEPT !.frames = vec]
from_vec(frames, delay) == set_frames(init_frameless(delay), frames)
equal_sized(n_frames, duration, delay) ==
    set_frames(init_frameless(delay), [i \in 1..n_frames |-> duration])

is_done(t) == t.next = Len(t.frames)

\* A faulty state: a frame ends only when more than its duration has passed
state_strict(t_, elapsed) ==
    CHOOSE res_ \in {(
        IF is_done(t) THEN [state |-> "Done", timer |-> t]
        ELSE LET lu == t.last_update + elapsed
                 curr_frame == t.frames[t.next + 1]
                 adv == [t EXCEPT !.next = t.next + 1, !.last_update = 0]
                 wait == [t EXCEPT !.last_update = lu]
             IN IF t.next = 0
                THEN IF lu > t.delay THEN [state |-> "Ready", timer |-> adv]
                                     ELSE [state |-> "Waiting", timer |-> wait]
                ELSE IF lu > curr_frame THEN [state |-> "Ready", timer |-> adv]
                                        ELSE [state |-> "Waiting", timer |-> wait]
        ) : t \in {t_}} : TRUE

\* A faulty state: a finished timer goes on accumulating the elapsed time
state_keeps_time(t_, elapsed) ==
    CHOOSE res_ \in {(
        LET lu == t.last_update + elapsed
            adv == [t EXCEPT !.next = t.next + 1, !.last_update = 0]
            wait == [t EXCEPT !.last_update = lu]
        IN IF is_done(t) THEN [state |-> "Done", timer |-> wait]
           ELSE IF t.next = 0
                THEN IF lu > t.delay THEN [state |-> "Ready", timer |-> adv]
                                     ELSE [state |-> "Waiting", timer |-> wait]
                ELSE IF lu >= t.frames[t.next + 1] THEN [state |-> "Ready", timer |-> adv]
                                                   ELSE [state |-> "Waiting", timer |-> wait]
        ) : t \in {t_}} : TRUE

\* A faulty state: the first frame ends as soon as the delay is reached
state_eager(t_, elapsed) ==
    CHOOSE res_ \in {(
        IF is_done(t) THEN [state |-> "Done", timer |-> t]
        ELSE LET lu == t.last_update + elapsed
                 adv == [t EXCEPT !.next = t.next + 1, !.last_update = 0]
                 wait == [t EXCEPT !.last_update = lu]
             IN IF lu >= (IF t.next = 0 THEN t.delay ELSE t.frames[t.next + 1])
                THEN [state |-> "Ready", timer |-> adv]
                ELSE [state |-> "Waiting", timer |-> wait]
        ) : t \in {t_}} : TRUE

\* FrameTimer::state: returns [state, timer]
state(t_, elapsed) ==
    CHOOSE res_ \in {(
        IF is_done(t) THEN [state |-> "Done", timer |-> t]
        ELSE LET lu == t.last_update + elapsed
                 curr_frame == t.frames[t.next + 1]
                 adv == [t EXCEPT !.next = t.next + 1, !.last_update = 0]
                 wait == [t EXCEPT !.last_update = lu]
             IN IF t.next = 0
                THEN IF lu > t.delay THEN [state |-> "Ready", timer |-> adv]
                                     ELSE [state |-> "Waiting", timer |-> wait]
                ELSE IF lu >= curr_frame THEN [state |-> "Ready", timer |-> adv]
                                         ELSE [state |-> "Waiting", timer |-> wait]
        ) : t \in {t_}} : TRUE

\* A faulty get_state: the first frame peeks Ready as soon as the delay is reached
get_state_eager(t_) ==
    CHOOSE res_ \in {(
        IF is_done(t) THEN "Done"
        ELSE IF t.last_update >= (IF t.next = 0 THEN t.delay ELSE t.frames[t.next + 1])
             THEN "Ready" ELSE "Waiting"
        ) : t \in {t_}} : TRUE

\* FrameTimer::get_state
get_state(t_) ==
    CHOOSE res_ \in {(
        IF is_done(t) THEN "Done"
        ELSE LET curr_frame == t.frames[t.next + 1]
             IN IF t.next = 0
                THEN IF t.last_update > t.delay THEN "Ready" ELSE "Waiting"
                ELSE IF t.last_update >= curr_frame THEN "Ready" ELSE "Waiting"
        ) : t \in {t_}} : TRUE

---------------------------------------------------------------------------
(* main.rs: Coord, Pos, Direction, Rotation, Collision, Color *)

Coord(x, y) == [x |-> x, y |-> y]
coord_add(a, b) == [x |-> a.x + b.x, y |-> a.y + b.y]
coord_to_pos(c, width) == c.x + c.y * width
pos_to_coord(p, width) == [x |-> p % width, y |-> p \div width]

Keys == {"Down", "Left", "Right", "Z", "X", "Up", "Other"}

\* impl From<Key> for Direction
key_to_dir(key) ==
    CASE key = "Down" -> "Down"
      [] key = "Left" -> "Left"
      [] key = "Right" -> "Right"
      [] OTHER -> "None"

\* impl From<Key> for Rotation
key_to_rot(key) ==
    CASE key = "Z" -> "CCW"
      [] key = "X" -> "CW"
      [] key = "Up" -> "CW"
      [] OTHER -> "None"

\* impl Into<Coord> for Direction
dir_to_coord(dir) ==
    CASE dir = "Down" -> Coord(0, 1)
      [] dir = "Left" -> Coord(-1, 0)
      [] dir = "Right" -> Coord(1, 0)
      [] OTHER -> Coord(0, 0)

\* Direction::opposite
opposite(dir) ==
    CASE dir = "Left" -> "Right"
      [] dir = "Right" -> "Left"
      [] OTHER -> "None"

\* Rotation::to_dir
rot_to_dir(rot) ==
    CASE rot = "CW" -> "Right"
      [] rot = "CCW" -> "Left"
      [] OTHER -> "None"

\* Collision::to_dir
coll_to_dir(coll) ==
    CASE coll = "Left" -> "Left"
      [] coll = "Right" -> "Right"
      [] coll = "Under" -> "Down"
      [] OTHER -> "None"

NUM_COLORS == 8
COLORS == [i \in 0..(NUM_COLORS - 1) |->
             <<"Black", "Green", "Yellow", "Red", "Blue", "Pink", "White", "Aqua">>[i + 1]]

color_to_i(c) == CHOOSE i \in 0..(NUM_COLORS - 1) : COLORS[i] = c
get_color(i) == COLORS[(i + 1) % NUM_COLORS]
next_color(c) == get_color(color_to_i(c))

Bone(color, coord) == [color |-> color, coord |-> coord]

\* Bone::clear_animate
clear_animate(bone, st) ==
    IF st = "Ready" THEN [bone EXCEPT !.color = next_color(bone.color)] ELSE bone

---------------------------------------------------------------------------
(* main.rs: Tetrinome *)

NUM_PIECES == 7
TETRINOME_SIZE == 4

\* The layouts of Tetrinome::from_piece, one character per element
Layout(kind) ==
    CASE kind = "I" -> << <<"-","-","-","-">>, <<"x","o","x","x">>, <<"-","-","-","-">>, <<"-","-","-","-">> >>
      [] kind = "L" -> << <<"-","-","x","-">>, <<"x","o","x","-">>, <<"-","-","-","-">>, <<"-","-","-","-">> >>
      [] kind = "J" -> << <<"x","-","-","-">>, <<"x","o","x","-">>, <<"-","-","-","-">>, <<"-","-","-","-">> >>
      [] kind = "T" -> << <<"-","-","x","-">>, <<"-","x","o","x">>, <<"-","-","-","-">>, <<"-","-","-","-">> >>
      [] kind = "Z" -> << <<"x","x","-","-">>, <<"-","o","x","-">>, <<"-","-","-","-">>, <<"-","-","-","-">> >>
      [] kind = "S" -> << <<"-","-","x","x">>, <<"-","x","o","-">>, <<"-","-","-","-">>, <<"-","-","-","-">> >>
      [] kind = "O" -> << <<"-","x","x","-">>, <<"-","x","x","-">>, <<"-","-","-","-">>, <<"-","-","-","-">> >>

PieceColor(kind) ==
    CASE kind = "I" -> "Green"
      [] kind = "L" -> "Yellow"
      [] kind = "J" -> "Red"
      [] kind = "T" -> "Blue"
      [] kind = "Z" -> "Pink"
      [] kind = "S" -> "White"
      [] kind = "O" -> "Aqua"

\* [..].join("\n")
RECURSIVE join(_)
join(lines) ==
    IF Len(lines) = 0 THEN <<>>
    ELSE IF Len(lines) = 1 THEN lines[1]
    ELSE lines[1] \o <<"\n">> \o join(Tail(lines))

\* layout.find('\n'): index of the first newline
find_newline(chars) == Min({i \in 1..Len(chars) : chars[i] = "\n"}) - 1

\* Tetrinome::from_layout
from_layout(layout, color, kind) ==
    LET width == find_newline(layout) + 1
        idx == SelectSeq([i \in 1..Len(layout) |-> i - 1],
                         LAMBDA i : layout[i + 1] = "x" \/ layout[i + 1] = "o")
        piv == {k \in 1..Len(idx) : layout[idx[k] + 1] = "o"}
    IN [kind |-> kind,
        bones |-> [b \in 0..(TETRINOME_SIZE - 1) |->
                     IF b + 1 <= Len(idx) THEN Bone(color, pos_to_coord(idx[b + 1], width))
                     ELSE Bone("Black", Coord(0, 0))],
        pivot |-> IF piv = {} THEN None ELSE Some(Max(piv) - 1)]

\* Tetrinome::from_piece
from_piece(kind) == from_layout(join(Layout(kind)), PieceColor(kind), kind)

\* Game::new: the PIECES array
PIECES == [i \in 0..(NUM_PIECES - 1) |->
             from_piece(<<"I", "O", "L", "T", "Z", "S", "J">>[i + 1])]

\* Tetrinome::shift
shift(piece_, offset) ==
    CHOOSE res_ \in {(
        [b \in 0..(TETRINOME_SIZE - 1) |-> coord_add(piece.bones[b].coord, offset)]
        ) : piece \in {piece_}} : TRUE

\* Tetrinome::trans_to
trans_to(piece_, new_coords_) ==
    CHOOSE res_ \in {(
        [piece EXCEPT !.bones = [b \in 0..(TETRINOME_SIZE - 1) |->
                                   [piece.bones[b] EXCEPT !.coord = new_coords[b]]]]
        ) : piece \in {piece_}, new_coords \in {new_coords_}} : TRUE

\* Tetrinome::trans_change
trans_change(piece_, offset) ==
    CHOOSE res_ \in {(
        trans_to(piece, shift(piece, offset))
        ) : piece \in {piece_}} : TRUE

\* Tetrinome::get_coords
get_coords(piece) == [b \in 0..(TETRINOME_SIZE - 1) |-> piece.bones[b].coord]

\* Tetrinome::get_width
get_width(piece_) ==
    CHOOSE res_ \in {(
        LET xs == {piece.bones[b].coord.x : b \in 0..(TETRINOME_SIZE - 1)}
        IN Max(xs) - Min(xs) + 1
        ) : piece \in {piece_}} : TRUE

\* A faulty product: the clockwise matrix for either rotation
rot_apply_cw(rot, off) == Coord(0 * off.x + (-1) * off.y, 1 * off.x + 0 * off.y)

\* The product rot_cw_matrix * pivot_offset of Tetrinome::rotate
rot_apply(rot, off) ==
    IF rot = "CW" THEN Coord(0 * off.x + (-1) * off.y, 1 * off.x + 0 * off.y)
    ELSE Coord(0 * off.x + 1 * off.y, (-1) * off.x + 0 * off.y)

\* Tetrinome::rotate
rotate(piece_, rot) ==
    CHOOSE res_ \in {(
        IF IsSome(piece.pivot) /\ rot # "None"
        THEN LET pivot == piece.bones[Unwrap(piece.pivot)].coord
             IN trans_to(piece,
                    [b \in 0..(TETRINOME_SIZE - 1) |->
                       LET c == piece.bones[b].coord
                           pivot_offset == Coord(c.x - pivot.x, c.y - pivot.y)
                       IN coord_add(pivot, rot_apply(rot, pivot_offset))])
        ELSE piece
        ) : piece \in {piece_}} : TRUE

Rotations == {"CW", "CCW", "None"}

\* impl Distribution<Tetrinome> for Standard: sample with piece index i and rotation rot
sample(i, rot) == rotate(PIECES[i], rot)

\* Tetrinome::new with the random choices i, rot and x
new_piece(i, rot, x) == trans_change(sample(i, rot), Coord(x, -1))

---------------------------------------------------------------------------
(* main.rs: Block, Blocks *)

WIDTH == 10
HEIGHT == 20
SIZE == WIDTH * HEIGHT

\* impl From<Bone> for Block
Block(bone) == [bone |-> bone, frame_timer |-> None]

\* Blocks::new
blocks_new(len) == [data |-> [p \in 0..(len - 1) |-> None], rows_full |-> <<>>]

\* A faulty set_block: a negative position is counted from the end of the array
set_block_wraps(d_, new_pos, bone) ==
    CHOOSE res_ \in {(
        [d EXCEPT ![IF new_pos >= 0 THEN new_pos ELSE new_pos + WIDTH * HEIGHT] = Some(Block(bone))]
        ) : d \in {d_}} : TRUE

\* Blocks::set_block
set_block(d_, new_pos, bone) ==
    CHOOSE res_ \in {(
        IF new_pos >= 0 THEN [d EXCEPT ![new_pos] = Some(Block(bone))] ELSE d
        ) : d \in {d_}} : TRUE

\* Blocks::get_block
get_block(d, pos) == IF pos >= 0 THEN d[pos] ELSE None

\* A faulty clear: only the first WIDTH slots are emptied
clear_first_row(d) == [p \in DOMAIN d |-> IF p < WIDTH THEN None ELSE d[p]]

\* Blocks::clear
clear(d) == [p \in 0..(SIZE - 1) |-> None]

\* The slice data[start..end] of a row
RowSlots(row) == (row * WIDTH)..(row * WIDTH + WIDTH - 1)

\* A faulty row_full: the last slot of the row is not looked at
row_full_short(d_, row) ==
    CHOOSE res_ \in {(
        \A p \in (row * WIDTH)..(row * WIDTH + WIDTH - 2) : d[p] # None
        ) : d \in {d_}} : TRUE

\* Blocks::row_full
row_full(d_, row) ==
    CHOOSE res_ \in {(
        \A p \in RowSlots(row) : d[p] # None
        ) : d \in {d_}} : TRUE

\* Blocks::clear_row
clear_row(d_, row) ==
    CHOOSE res_ \in {(
        [p \in DOMAIN d |-> IF p \in RowSlots(row) THEN None ELSE d[p]]
        ) : d \in {d_}} : TRUE

\* Blocks::add_row_to_clear
add_row_to_clear(rf, row) == Append(rf, row)

\* Blocks::row_ready
row_ready(d_, row) ==
    CHOOSE res_ \in {(
        \A p \in RowSlots(row) :
            (IsSome(d[p]) /\ IsSome(Unwrap(d[p]).frame_timer))
                => get_state(Unwrap(Unwrap(d[p]).frame_timer)) = "Done"
        ) : d \in {d_}} : TRUE

TOTAL_ANIM_TIME == 3000 * 2
FRAME_DURATION == MILLIS_PER_UPDATE * 3
N_FRAMES == TOTAL_ANIM_TIME \div FRAME_DURATION

\* The timer start_clear attaches to a block
clear_timer == equal_sized(N_FRAMES, FRAME_DURATION, 0)

\* Blocks::start_clear
start_clear(b_, row) ==
    CHOOSE res_ \in {(
        LET start == row * WIDTH
            fresh(p) == IsSome(b.data[p]) /\ Unwrap(b.data[p]).frame_timer = None
            i(p) == Cardinality({q \in start..(p - 1) : fresh(q)})
        IN [data |-> [p \in DOMAIN b.data |->
                        IF p \in RowSlots(row) /\ fresh(p)
                        THEN Some([bone |-> [Unwrap(b.data[p]).bone EXCEPT !.color = get_color(i(p))],
                                   frame_timer |-> Some(clear_timer)])
                        ELSE b.data[p]],
            rows_full |-> add_row_to_clear(b.rows_full, row)]
        ) : b \in {b_}} : TRUE

\* A faulty drop_row_down: the old slot keeps its block
drop_row_down_copy(b_, row) ==
    CHOOSE res_ \in {(
        LET moved == {p \in RowSlots(row) : IsSome(b.data[p])}
            bump(blk) == [blk EXCEPT !.bone.coord.y = blk.bone.coord.y + 1]
        IN [blocks |->
              [data |-> [p \in DOMAIN b.data |->
                           IF (p - WIDTH) \in moved THEN Some(bump(Unwrap(b.data[p - WIDTH])))
                           ELSE b.data[p]],
               rows_full |-> [k \in 1..Len(b.rows_full) |->
                                IF row >= b.rows_full[k] THEN b.rows_full[k] + 1
                                ELSE b.rows_full[k]]],
            count |-> Cardinality(moved)]
        ) : b \in {b_}} : TRUE

\* Blocks::drop_row_down: returns [blocks, count]
\* A faulty drop: the blocks are moved one row down with their coordinates as they were
drop_row_down_keeps_coord(b_, row) ==
    CHOOSE res_ \in {(
        LET moved == {p \in RowSlots(row) : IsSome(b.data[p])}
        IN [blocks |->
              [data |-> [p \in DOMAIN b.data |->
                           IF p \in moved THEN None
                           ELSE IF (p - WIDTH) \in moved THEN b.data[p - WIDTH]
                           ELSE b.data[p]],
               rows_full |-> [k \in 1..Len(b.rows_full) |->
                                IF row >= b.rows_full[k] THEN b.rows_full[k] + 1
                                ELSE b.rows_full[k]]],
            count |-> Cardinality(moved)]
        ) : b \in {b_}} : TRUE

drop_row_down(b_, row) ==
    CHOOSE res_ \in {(
        LET moved == {p \in RowSlots(row) : IsSome(b.data[p])}
            bump(blk) == [blk EXCEPT !.bone.coord.y = blk.bone.coord.y + 1]
        IN [blocks |->
              [data |-> [p \in DOMAIN b.data |->
                           IF p \in moved THEN None
                           ELSE IF (p - WIDTH) \in moved THEN Some(bump(Unwrap(b.data[p - WIDTH])))
                           ELSE b.data[p]],
               rows_full |-> [k \in 1..Len(b.rows_full) |->
                                IF row >= b.rows_full[k] THEN b.rows_full[k] + 1
                                ELSE b.rows_full[k]]],
            count |-> Cardinality(moved)]
        ) : b \in {b_}} : TRUE

\* A faulty loop: it does not stop at an empty row
RECURSIVE drop_above_all(_, _)
drop_above_all(b_, upper_row) ==
    CHOOSE res_ \in {(
        IF upper_row < 0 THEN b
        ELSE drop_above_all(drop_row_down(b, upper_row).blocks, upper_row - 1)
        ) : b \in {b_}} : TRUE

\* The loop "for upper_row in (0..ready_row).rev()" of finish_clear, from upper_row on
RECURSIVE drop_above(_, _)
drop_above(b_, upper_row) ==
    CHOOSE res_ \in {(
        IF upper_row < 0 THEN b
        ELSE LET r == drop_row_down(b, upper_row)
             IN IF r.count = 0 THEN r.blocks
                ELSE drop_above(r.blocks, upper_row - 1)
        ) : b \in {b_}} : TRUE

\* ready_rows of finish_clear
ready_rows(b_) ==
    CHOOSE res_ \in {(
        SelectSeq(b.rows_full, LAMBDA row : row_ready(b.data, row))
        ) : b \in {b_}} : TRUE

\* The first loop of finish_clear: clear_row on every ready row
RECURSIVE clear_ready(_, _)
clear_ready(d_, ready_) ==
    CHOOSE res_ \in {(
        IF ready = <<>> THEN d ELSE clear_ready(clear_row(d, Head(ready)), Tail(ready))
        ) : d \in {d_}, ready \in {ready_}} : TRUE

\* One iteration of the second loop of finish_clear
drop_ready(b_, ready_row) ==
    CHOOSE res_ \in {(
        LET dropped == drop_above(b, ready_row - 1)
        IN [dropped EXCEPT !.rows_full = Tail(dropped.rows_full)]
        ) : b \in {b_}} : TRUE

\* The second loop of finish_clear
RECURSIVE drop_all_ready(_, _)
drop_all_ready(b_, ready_) ==
    CHOOSE res_ \in {(
        IF ready = <<>> THEN b
        ELSE drop_all_ready(drop_ready(b, Head(ready)), Tail(ready))
        ) : b \in {b_}, ready \in {ready_}} : TRUE

\* Blocks::finish_clear
finish_clear(b_) ==
    CHOOSE res_ \in {(
        LET ready == ready_rows(b)
        IN drop_all_ready([b EXCEPT !.data = clear_ready(b.data, ready)], ready)
        ) : b \in {b_}} : TRUE

\* Blocks::get_piece_rows: the sorted, deduplicated rows as a set
get_piece_rows(piece) == {piece.bones[i].coord.y : i \in 0..(TETRINOME_SIZE - 1)}

\* The collision of one coordinate in check_collision ("Free" when there is none)
\* A faulty check of one cell: the left wall is not looked at
coord_collision_no_wall(d, coord, dir, rot) ==
    IF coord.x >= WIDTH THEN "Right"
    ELSE IF coord.y >= HEIGHT THEN "Under"
    ELSE IF get_block(d, coord_to_pos(coord, WIDTH)) = None THEN "Free"
    ELSE CASE dir = "Down" -> "Under"
           [] dir = "Left" -> "Left"
           [] dir = "Right" -> "Right"
           [] OTHER -> CASE rot_to_dir(rot) = "Left" -> "Left"
                         [] rot_to_dir(rot) = "Right" -> "Right"
                         [] OTHER -> "None"

coord_collision(d, coord, dir, rot) ==
    IF coord.x < 0 THEN "Left"
    ELSE IF coord.x >= WIDTH THEN "Right"
    ELSE IF coord.y >= HEIGHT THEN "Under"
    ELSE IF get_block(d, coord_to_pos(coord, WIDTH)) = None THEN "Free"
    ELSE CASE dir = "Down" -> "Under"
           [] dir = "Left" -> "Left"
           [] dir = "Right" -> "Right"
           [] OTHER -> CASE rot_to_dir(rot) = "Left" -> "Left"
                         [] rot_to_dir(rot) = "Right" -> "Right"
                         [] OTHER -> "None"

\* Blocks::check_collision
check_collision(d_, piece_, dir, rot) ==
    CHOOSE res_ \in {(
        LET coords == get_coords(piece)
            hit == {i \in 0..(TETRINOME_SIZE - 1) : coord_collision(d, coords[i], dir, rot) # "Free"}
        IN IF hit = {} THEN "None"
           ELSE coord_collision(d, coords[Min(hit)], dir, rot)
        ) : d \in {d_}, piece \in {piece_}} : TRUE

---------------------------------------------------------------------------
(* main.rs: Grid.  A grid value g is [data, rows_full, curr_piece, instant_drop]. *)

blocks_of(g_) ==
    CHOOSE res_ \in {(
        [data |-> g.data, rows_full |-> g.rows_full]
        ) : g \in {g_}} : TRUE
with_blocks(g_, b_) ==
    CHOOSE res_ \in {(
        [g EXCEPT !.data = b.data, !.rows_full = b.rows_full]
        ) : g \in {g_}, b \in {b_}} : TRUE

\* Grid::new with the piece drawn by Tetrinome::new
grid_new(piece) ==
    [data |-> blocks_new(WIDTH * HEIGHT).data, rows_full |-> blocks_new(WIDTH * HEIGHT).rows_full,
     curr_piece |-> piece, instant_drop |-> None]

\* Grid::commit_piece
RECURSIVE commit_from(_, _, _)
commit_from(d_, piece_, i) ==
    CHOOSE res_ \in {(
        IF i >= TETRINOME_SIZE THEN d
        ELSE commit_from(set_block(d, coord_to_pos(piece.bones[i].coord, WIDTH), piece.bones[i]),
                         piece, i + 1)
        ) : d \in {d_}, piece \in {piece_}} : TRUE

\* A faulty commit_piece: nothing is written
commit_nothing(g_) == g_

commit_piece(g_) ==
    CHOOSE res_ \in {(
        [g EXCEPT !.data = commit_from(g.data, g.curr_piece, 0)]
        ) : g \in {g_}} : TRUE

\* Grid::clear_row_if: the loop over row in 0..=rows[rows.len()-1], from row on
RECURSIVE clear_rows_from(_, _, _)
clear_rows_from(b_, row, last) ==
    CHOOSE res_ \in {(
        IF row > last THEN b
        ELSE clear_rows_from(IF row_full(b.data, row) THEN start_clear(b, row) ELSE b, row + 1, last)
        ) : b \in {b_}} : TRUE

clear_row_if(g_) ==
    CHOOSE res_ \in {(
        with_blocks(g, clear_rows_from(blocks_of(g), 0, Max(get_piece_rows(g.curr_piece))))
        ) : g \in {g_}} : TRUE

\* The candidate move_if builds from the current piece
candidate(piece_, dir, rot) ==
    CHOOSE res_ \in {(
        rotate(trans_change(piece, dir_to_coord(dir)), rot)
        ) : piece \in {piece_}} : TRUE

\* A faulty kick: one cell, whatever the width
kick_one(piece_, new_dir, n) ==
    IF n <= 0 THEN piece_ ELSE trans_change(piece_, dir_to_coord(new_dir))

\* The wall-kick loop of move_if: new_piece translated get_width()/2 times by new_dir
RECURSIVE kick(_, _, _)
kick(piece_, new_dir, n) ==
    CHOOSE res_ \in {(
        IF n <= 0 THEN piece ELSE kick(trans_change(piece, dir_to_coord(new_dir)), new_dir, n - 1)
        ) : piece \in {piece_}} : TRUE

\* A faulty move_if: the wall kick is tried for a sideways move as well
move_if_kicks_always(g_, dir, rot, spawn_) ==
    CHOOSE res_ \in {(
        LET new_piece0 == candidate(g.curr_piece, dir, rot)
            col_dir == check_collision(g.data, new_piece0, dir, rot)
        IN CASE col_dir = "Under" ->
                  [grid |-> [clear_row_if(commit_piece(g)) EXCEPT !.curr_piece = spawn],
                   ret |-> TRUE]
             [] col_dir \in {"Left", "Right"} ->
                  LET new_dir == opposite(coll_to_dir(col_dir))
                      kicked == kick(new_piece0, new_dir, get_width(new_piece0) \div 2)
                      new_col == check_collision(g.data, kicked, new_dir, "None")
                  IN [grid |-> IF new_col = "None" THEN [g EXCEPT !.curr_piece = kicked] ELSE g,
                      ret |-> FALSE]
             [] OTHER -> [grid |-> [g EXCEPT !.curr_piece = new_piece0], ret |-> FALSE]
        ) : g \in {g_}, spawn \in {spawn_}} : TRUE

\* Grid::move_if: returns [grid, ret]; spawn is the piece Tetrinome::new draws on a commit
move_if(g_, dir, rot, spawn_) ==
    CHOOSE res_ \in {(
        LET new_piece0 == candidate(g.curr_piece, dir, rot)
            col_dir == check_collision(g.data, new_piece0, dir, rot)
        IN CASE col_dir = "Under" ->
                  [grid |-> [clear_row_if(commit_piece(g)) EXCEPT !.curr_piece = spawn],
                   ret |-> TRUE]
             [] col_dir \in {"Left", "Right"} ->
                  IF rot \in {"CCW", "CW"}
                  THEN LET new_dir == opposite(coll_to_dir(col_dir))
                           kicked == kick(new_piece0, new_dir, get_width(new_piece0) \div 2)
                           new_col == check_collision(g.data, kicked, new_dir, "None")
                       IN [grid |-> IF new_col = "None" THEN [g EXCEPT !.curr_piece = kicked] ELSE g,
                           ret |-> FALSE]
                  ELSE [grid |-> g, ret |-> FALSE]
             [] OTHER -> [grid |-> [g EXCEPT !.curr_piece = new_piece0], ret |-> FALSE]
        ) : g \in {g_}, spawn \in {spawn_}} : TRUE

\* Grid::shadow_distance: the loop with counter i
RECURSIVE shadow_loop(_, _, _)
shadow_loop(d_, shadow_piece_, i) ==
    CHOOSE res_ \in {(
        IF check_collision(d, shadow_piece, "Down", "None") = "Under"
        THEN (IF i # 0 THEN i - 1 ELSE 0)
        ELSE shadow_loop(d, trans_change(shadow_piece, dir_to_coord("Down")), i + 1)
        ) : d \in {d_}, shadow_piece \in {shadow_piece_}} : TRUE

shadow_distance(d, piece) == shadow_loop(d, piece, 0)

\* Grid::start_drop
start_drop(g_, piece_) ==
    CHOOSE res_ \in {(
        [g EXCEPT !.instant_drop =
            Some([piece |-> piece,
                  frame_timer |-> equal_sized(shadow_distance(g.data, piece) + 1, MILLIS_PER_UPDATE, 0)])]
        ) : g \in {g_}, piece \in {piece_}} : TRUE

\* An iteration of the loop of finish_drop makes no progress: move_if(Down, None)
\* neither commits nor moves the piece
drop_stuck(g_) ==
    CHOOSE res_ \in {(
     check_collision(g.data, candidate(g.curr_piece, "Down", "None"), "Down", "None")
                        \in {"Left", "Right"}
        ) : g \in {g_}} : TRUE

\* The loop of finish_drop
RECURSIVE drop_loop(_, _)
drop_loop(g_, spawn_) ==
    CHOOSE res_ \in {(
        LET r == move_if(g, "Down", "None", spawn)
        IN IF r.ret THEN r.grid ELSE drop_loop(r.grid, spawn)
        ) : g \in {g_}, spawn \in {spawn_}} : TRUE

\* Grid::finish_drop
finish_drop(g_, spawn_) ==
    CHOOSE res_ \in {(
        start_drop(drop_loop(g, spawn), g.curr_piece)
        ) : g \in {g_}, spawn \in {spawn_}} : TRUE

\* Grid::animate_drop
animate_drop(g_, elapsed) ==
    CHOOSE res_ \in {(
        IF IsSome(g.instant_drop)
        THEN LET id == Unwrap(g.instant_drop)
                 r == state(id.frame_timer, elapsed)
             IN IF r.state = "Ready"
                THEN [g EXCEPT !.instant_drop =
                         Some([piece |-> trans_change(id.piece, dir_to_coord("Down")),
                               frame_timer |-> r.timer])]
                ELSE IF r.state = "Done" THEN [g EXCEPT !.instant_drop = None]
                ELSE [g EXCEPT !.instant_drop = Some([piece |-> id.piece, frame_timer |-> r.timer])]
        ELSE g
        ) : g \in {g_}} : TRUE

\* Grid::draw_grid: every block with a timer advances it and animates its bone
draw_grid(g_, elapsed) ==
    CHOOSE res_ \in {(
        [g EXCEPT !.data =
            [p \in DOMAIN g.data |->
               IF IsSome(g.data[p]) /\ IsSome(Unwrap(g.data[p]).frame_timer)
               THEN LET blk == Unwrap(g.data[p])
                        r == state(Unwrap(blk.frame_timer), elapsed)
                    IN Some([bone |-> clear_animate(blk.bone, r.state),
                             frame_timer |-> Some(r.timer)])
               ELSE g.data[p]]]
        ) : g \in {g_}} : TRUE

\* Grid::draw
grid_draw(g_, elapsed) ==
    CHOOSE res_ \in {(
        animate_drop(draw_grid(g, elapsed), elapsed)
        ) : g \in {g_}} : TRUE

---------------------------------------------------------------------------
(* main.rs: Game.  A world value w is a grid value with the fields          *)
(* fall_update (Game::timing) and ELAPSED (timing::ELAPSED).                *)

grid_of(w_) ==
    CHOOSE res_ \in {(
     [data |-> w.data, rows_full |-> w.rows_full,
                   curr_piece |-> w.curr_piece, instant_drop |-> w.instant_drop]
        ) : w \in {w_}} : TRUE
with_grid(w_, g_) ==
    CHOOSE res_ \in {(
     [w EXCEPT !.data = g.data, !.rows_full = g.rows_full,
                                 !.curr_piece = g.curr_piece, !.instant_drop = g.instant_drop]
        ) : w \in {w_}, g \in {g_}} : TRUE

\* Game::new with the piece drawn by Tetrinome::new; Timer::default; ELAPSED's initializer
game_new(piece) ==
    LET g == grid_new(piece)
    IN [data |-> g.data, rows_full |-> g.rows_full, curr_piece |-> g.curr_piece,
        instant_drop |-> g.instant_drop, fall_update |-> 0, ELAPSED |-> MILLIS_PER_UPDATE]

\* Game::event, a pressed key other than Space and Q
event_key(w_, key, spawn_) ==
    CHOOSE res_ \in {(
        with_grid(w, move_if(grid_of(w), key_to_dir(key), key_to_rot(key), spawn).grid)
        ) : w \in {w_}, spawn \in {spawn_}} : TRUE

\* Game::event, Key::Space pressed
event_space(w_, spawn_) ==
    CHOOSE res_ \in {(
        with_grid(w, finish_drop(grid_of(w), spawn))
        ) : w \in {w_}, spawn \in {spawn_}} : TRUE

\* Game::event, Key::Q pressed
event_q(w_) ==
    CHOOSE res_ \in {(
        [w EXCEPT !.data = clear(w.data)]
        ) : w \in {w_}} : TRUE

\* A faulty update: the gravity move is made before finish_clear
update_gravity_first(w_, spawn_) ==
    CHOOSE res_ \in {(
        LET t == timer_update(w.fall_update)
            f == timer_fall(t.fall_update)
            moved == IF f.ret THEN move_if(grid_of(w), "Down", "None", spawn).grid ELSE grid_of(w)
            cleared == with_blocks(moved, finish_clear(blocks_of(moved)))
        IN [with_grid(w, cleared) EXCEPT !.fall_update = f.fall_update, !.ELAPSED = t.ELAPSED]
        ) : w \in {w_}, spawn \in {spawn_}} : TRUE

\* Game::update
update(w_, spawn_) ==
    CHOOSE res_ \in {(
        LET t == timer_update(w.fall_update)
            cleared == with_blocks(grid_of(w), finish_clear(blocks_of(w)))
            f == timer_fall(t.fall_update)
            moved == IF f.ret THEN move_if(cleared, "Down", "None", spawn).grid ELSE cleared
        IN [with_grid(w, moved) EXCEPT !.fall_update = f.fall_update, !.ELAPSED = t.ELAPSED]
        ) : w \in {w_}, spawn \in {spawn_}} : TRUE

\* Game::draw
draw(w_) ==
    CHOOSE res_ \in {(
        with_grid(w, grid_draw(grid_of(w), w.ELAPSED))
        ) : w \in {w_}} : TRUE

---------------------------------------------------------------------------
(* The pieces Tetrinome::new can return *)

\* A faulty range of offsets: up to the last column
XOffsets_wide == TETRINOME_SIZE..(WIDTH - 1)

XOffsets == TETRINOME_SIZE..(WIDTH - TETRINOME_SIZE - 1)
AllSpawns == {new_piece(i, rot, x) : i \in 0..(NUM_PIECES - 1), rot \in Rotations, x \in XOffsets}
Spawns == {new_piece(i, rot, x) : i \in 0..(NumKinds - 1), rot \in Rotations, x \in XOffsets}

---------------------------------------------------------------------------
(* Play prefixes.  An initial state of the game specification is the state  *)
(* the handlers above produce from Game::new on a sequence of callbacks, so *)
(* every initial state is one the program reaches.                          *)

IH(x) == new_piece(0, "None", x)   \* I, flat, columns x..x+3, row 0
IV(x) == new_piece(0, "CW", x)     \* I, upright, column x+1, rows -1..2
OO(x) == new_piece(1, "None", x)   \* O, columns x+1..x+2, rows -1..0

KeyOp(key) == [op |-> "Key", key |-> key, spawn |-> IH(4)]
SpaceOp(spawn) == [op |-> "Space", key |-> "Other", spawn |-> spawn]
QOp == [op |-> "Q", key |-> "Other", spawn |-> IH(4)]
UpdateOp == [op |-> "Update", key |-> "Other", spawn |-> IH(4)]
DrawOp == [op |-> "Draw", key |-> "Other", spawn |-> IH(4)]

RECURSIVE Rep(_, _)
Rep(ops, n) == IF n <= 0 THEN <<>> ELSE ops \o Rep(ops, n - 1)

\* The current piece is moved n columns (left when n < 0) and hard-dropped
Place(n, spawn) ==
    Rep(<<KeyOp(IF n < 0 THEN "Left" ELSE "Right")>>, IF n < 0 THEN -n ELSE n) \o <<SpaceOp(spawn)>>

\* One update followed by one draw
Tick == <<UpdateOp, DrawOp>>

apply(w_, o_) ==
    CHOOSE res_ \in {(
        CASE o.op = "Key" -> event_key(w, o.key, o.spawn)
          [] o.op = "Space" -> event_space(w, o.spawn)
          [] o.op = "Q" -> event_q(w)
          [] o.op = "Update" -> update(w, o.spawn)
          [] OTHER -> draw(w)
        ) : w \in {w_}, o \in {o_}} : TRUE

\* The callbacks ops run in order from w (the sequence is split in halves to keep
\* the evaluation shallow)
RECURSIVE Exec(_, _)
Exec(w_, ops_) ==
    CHOOSE res_ \in {(
        IF ops = <<>> THEN w
        ELSE IF Len(ops) = 1 THEN apply(w, ops[1])
        ELSE Exec(Exec(w, SubSeq(ops, 1, Len(ops) \div 2)),
                  SubSeq(ops, Len(ops) \div 2 + 1, Len(ops)))
        ) : w \in {w_}, ops \in {ops_}} : TRUE

\* Row 19 is filled by two flat I's and an O (which also puts two cells in row 18)
FillBottom(spawn) == Place(-4, IH(4)) \o Place(0, OO(5)) \o Place(2, spawn)

\* Row 19 full and d draws into its clear animation; an upright I is falling
RowClearing(d) == Exec(game_new(IH(4)), FillBottom(IV(4)) \o Rep(<<DrawOp>>, d))

\* The same after t whole ticks (update, then draw)
RowClearingTicks(t) == Exec(game_new(IH(4)), FillBottom(IV(4)) \o Rep(Tick, t))

\* Rows 19 and 16 full with two part-filled rows between them, row 19 enqueued
\* lead ticks before row 16 and t ticks run after row 16 is enqueued
TwoRowsApart(lead, t) ==
    Exec(game_new(IV(4)),
         Place(-5, IV(4)) \o Place(-4, IH(4)) \o Place(-2, IH(4)) \o Place(2, OO(5))
         \o Rep(Tick, lead)
         \o Place(-4, OO(5)) \o Place(0, IH(4)) \o Place(-2, IH(4)) \o Place(2, IV(4))
         \o Rep(Tick, t))

\* Row 19 is enqueued, then row 18 three draws later with an O on top of it;
\* d draws run after that with no update between them
TwoRowsStacked(d) ==
    Exec(game_new(IH(4)),
         FillBottom(IH(4)) \o Rep(<<DrawOp>>, 3)
         \o Place(-4, IH(4)) \o Place(0, OO(5)) \o Place(-4, IV(4))
         \o Rep(<<DrawOp>>, d))

\* Row 19 full and clearing; row 18 holds nine blocks, column 7 is free
AlmostFull ==
    Exec(game_new(IH(4)),
         FillBottom(IH(4)) \o Place(-4, OO(5)) \o Place(-2, IV(4)) \o Place(1, IH(4)))

\* Row 19 is full and its timers are Done; the piece, an upright I, rests on the block
\* at row 18 of column 8, and the next update is the one in which the piece falls
ClearUnderPiece ==
    Exec(game_new(IH(4)),
         FillBottom(IV(4)) \o Rep(<<UpdateOp>>, 8)
         \o Rep(<<KeyOp("Right")>>, 3) \o Rep(<<KeyOp("Down")>>, 15)
         \o Rep(<<DrawOp>>, 46))

\* A stack that reaches row 2: towers of upright I's in columns 0, 7 and 9 carry
\* rows 3 and 2; rows 2 and 3 are full and an upright I spawns over row 2
TopOut ==
    Exec(game_new(IV(4)),
         Rep(Place(-5, IV(4)), 4) \o Rep(Place(2, IV(4)), 4)
         \o Rep(Place(4, IV(4)), 3) \o Place(4, IH(4))
         \o Place(-4, IH(4)) \o Place(0, IH(4))
         \o Place(-4, IH(4)) \o Place(0, OO(5))
         \o Place(2, IV(4)))

\* An upright I in column 1 beside an upright I committed in column 2
BesideColumn ==
    Exec(game_new(IV(4)),
         Place(-3, IV(4)) \o Rep(<<KeyOp("Left")>>, 4) \o Rep(<<KeyOp("Down")>>, 16))

\* An upright I moved n columns from its spawn column and d rows down
AtColumn(n, d) ==
    Exec(game_new(IV(4)),
         Rep(<<KeyOp(IF n < 0 THEN "Left" ELSE "Right")>>, IF n < 0 THEN -n ELSE n)
         \o Rep(<<KeyOp("Down")>>, d))

\* A flat I moved down to row 18 of the empty board
NearFloor == Exec(game_new(IH(4)), Rep(<<KeyOp("Down")>>, HEIGHT - 2))

\* Towers of two upright I's each in columns 3 and 6 (rows 12 to 19)
TowerBase == Exec(game_new(IV(4)), Place(-2, IV(4)) \o Place(-2, IV(4)) \o Place(1, IV(4)))

\* The towers with piece p spawned above them
Towers(p) == Exec(TowerBase, Place(1, p))

\* Piece p pushed against a wall above the towers and moved d rows down
AtWall(p, side, d) ==
    Exec(Towers(p), Rep(<<KeyOp(side)>>, WIDTH - TETRINOME_SIZE) \o Rep(<<KeyOp("Down")>>, d))

\* The bottom row has finished its animation; a flat I lies on the O on row 17 and juts
\* out over columns 6 and 7, and the falling flat I has been slid under it on row 18
UnderOverhang ==
    Exec(game_new(IH(4)),
         FillBottom(IH(4)) \o Place(2, IH(4)) \o Rep(<<DrawOp>>, 46)
         \o Rep(<<KeyOp("Left")>>, 4) \o Rep(<<KeyOp("Down")>>, 18)
         \o Rep(<<KeyOp("Right")>>, 4))

Scenarios ==
    {game_new(p) : p \in {IH(4), OO(5)}}
    \cup {RowClearing(d) : d \in {0, 45, 46}}
    \cup {RowClearingTicks(45)}
    \cup {TwoRowsApart(1, 45)}
    \cup {TwoRowsStacked(d) : d \in {45}}
    \cup {TopOut}
    \cup {AlmostFull}
    \cup {ClearUnderPiece}
    \cup {UnderOverhang}

---------------------------------------------------------------------------
(* The game specification *)

World == [data |-> data, rows_full |-> rows_full, curr_piece |-> curr_piece,
          instant_drop |-> instant_drop, fall_update |-> fall_update, ELAPSED |-> ELAPSED]

Called(op, dir, rot) == [op |-> op, dir |-> dir, rot |-> rot]

\* The callback named by l ends in world w.  Blocks::clear leaves rows_full as it is,
\* so every entry is stale after it; finish_clear takes one entry off the front for
\* every ready row, and new entries are pushed at the back.
Set(w_, l) ==
    \E w \in {w_} :
        /\ data' = w.data
        /\ rows_full' = w.rows_full
        /\ curr_piece' = w.curr_piece
        /\ instant_drop' = w.instant_drop
        /\ fall_update' = w.fall_update
        /\ ELAPSED' = w.ELAPSED
        /\ steps' = steps + 1
        /\ last_call' = l
        /\ stale' = CASE l.op = "Q" -> Len(w.rows_full)
                      [] l.op = "Update" -> Max({0, stale - Len(ready_rows(blocks_of(World)))})
                      [] OTHER -> stale
        /\ UNCHANGED <<timerVars, convVars>>

\* move_if(dir, rot) on grid g commits the piece, and so calls Tetrinome::new
commits(g, dir, rot) ==
    check_collision(g.data, candidate(g.curr_piece, dir, rot), dir, rot) = "Under"

\* The pieces Tetrinome::new may return where it is called; one value where it is not
SpawnsIf(called) == IF called THEN Spawns ELSE {IH(4)}

TimerIdle ==
    /\ ft = clear_timer
    /\ calls = 0
    /\ uniform = TRUE
    /\ last_state = None
    /\ readies = 0

\* No conversion is running
ConvIdle ==
    /\ converted = "None"
    /\ call_stack = <<>>
    /\ returned = None

\* The game starts in world w
Start(w) ==
    /\ data = w.data
    /\ rows_full = w.rows_full
    /\ curr_piece = w.curr_piece
    /\ instant_drop = w.instant_drop
    /\ fall_update = w.fall_update
    /\ ELAPSED = w.ELAPSED
    /\ steps = 0
    /\ last_call = Called("Init", "None", "None")
    /\ stale = 0

Init ==
    /\ \E w \in Scenarios : Start(w)
    /\ TimerIdle
    /\ ConvIdle

EventKey(key) ==
    /\ steps < MaxSteps
    /\ \E spawn \in SpawnsIf(commits(grid_of(World), key_to_dir(key), key_to_rot(key))) :
          Set(event_key(World, key, spawn), Called("Key", key_to_dir(key), key_to_rot(key)))

\* finish_drop ends with the commit of the piece, where Tetrinome::new draws the next
\* piece: the drop is computed once and the drawn piece is the current piece after it.
\* The loop of finish_drop does not end when drop_stuck holds; the handler then never
\* returns and no state follows.
EventSpace ==
    /\ steps < MaxSteps
    /\ ~drop_stuck(grid_of(World))
    /\ \E w \in {event_space(World, IH(4))} : \E spawn \in Spawns :
          Set([w EXCEPT !.curr_piece = spawn], Called("Space", "Down", "None"))

EventQ ==
    /\ steps < MaxSteps
    /\ Set(event_q(World), Called("Q", "None", "None"))

\* Game::update moves the piece down on this call, and that move commits it
update_commits(w_) ==
    \E w \in {w_} :
        /\ timer_fall(timer_update(w.fall_update).fall_update).ret
        /\ commits(with_blocks(grid_of(w), finish_clear(blocks_of(w))), "Down", "None")

Update ==
    /\ steps < MaxSteps
    /\ \E spawn \in SpawnsIf(update_commits(World)) :
          Set(update(World, spawn), Called("Update", "Down", "None"))

Draw ==
    /\ steps < MaxSteps
    /\ Set(draw(World), Called("Draw", "None", "None"))

Next ==
    \/ \E key \in Keys : EventKey(key)
    \/ EventSpace
    \/ EventQ
    \/ Update
    \/ Draw

Spec == Init /\ [][Next]_vars

---------------------------------------------------------------------------
(* The piece specification: every piece Tetrinome::new can return, at its spawn *)
(* position on the empty board and against either wall beside the towers, moved *)
(* by the keys.                                                                  *)

PieceDepth == 12

PieceScenarios ==
    {game_new(p) : p \in AllSpawns}
    \cup {AtWall(p, side, d) : p \in AllSpawns, side \in {"Left", "Right"}, d \in {0, PieceDepth}}
    \cup {BesideColumn}
    \cup {AtColumn(n, 3) : n \in {-5, 4}}
    \cup {NearFloor}

InitPieces ==
    /\ \E w \in PieceScenarios : Start(w)
    /\ TimerIdle
    /\ ConvIdle

NextPieces == \E key \in Keys : EventKey(key)

SpecPieces == InitPieces /\ [][NextPieces]_vars

---------------------------------------------------------------------------
(* The gravity specification: the game left to itself from Game::new, with every *)
(* piece Tetrinome::new can return; the only callback is update.                 *)

MaxUpdates == 20

InitGravity ==
    /\ \E p \in AllSpawns : Start(game_new(p))
    /\ TimerIdle
    /\ ConvIdle

UpdateTick ==
    /\ steps < MaxUpdates
    /\ \E spawn \in SpawnsIf(update_commits(World)) :
          Set(update(World, spawn), Called("Update", "Down", "None"))

NextGravity == UpdateTick

SpecGravity == InitGravity /\ [][NextGravity]_vars

---------------------------------------------------------------------------
(* The conversion specification: one Collision -> Direction conversion of         *)
(* primitives.rs, by Collision::to_dir or by Direction::from, followed call by    *)
(* call.  A call pushes a frame; the stack holds StackLimit frames and a call     *)
(* that finds it exhausted ends the process (the guard page of the thread is hit  *)
(* and the runtime aborts), so that nothing is returned.                          *)

StackLimit == 30

Collisions == {"Left", "Right", "Under", "None"}

Frame(fn) == [fn |-> fn]

Top == call_stack[Len(call_stack)]

InitConv ==
    /\ Start(game_new(IH(4)))
    /\ TimerIdle
    /\ converted \in Collisions
    /\ call_stack \in {<<Frame("Collision::to_dir")>>, <<Frame("Direction::from")>>}
    /\ returned = None

\* impl From<Collision> for Direction: the body of from is coll.into()
FromCallsInto ==
    /\ call_stack # <<>>
    /\ Top.fn = "Direction::from"
    /\ Len(call_stack) < StackLimit
    /\ call_stack' = Append(call_stack, Frame("Into::into"))
    /\ UNCHANGED <<converted, returned>>

\* Collision has no Into<Direction> of its own: coll.into() is the blanket
\* impl<T, U: From<T>> Into<U> for T, whose body is U::from(self)
IntoCallsFrom ==
    /\ call_stack # <<>>
    /\ Top.fn = "Into::into"
    /\ Len(call_stack) < StackLimit
    /\ call_stack' = Append(call_stack, Frame("Direction::from"))
    /\ UNCHANGED <<converted, returned>>

\* Collision::to_dir: a match that returns
ToDirReturns ==
    /\ call_stack # <<>>
    /\ Top.fn = "Collision::to_dir"
    /\ call_stack' = SubSeq(call_stack, 1, Len(call_stack) - 1)
    /\ returned' = Some(coll_to_dir(converted))
    /\ UNCHANGED converted

\* The next call finds the stack exhausted: the process is aborted
StackOverflow ==
    /\ call_stack # <<>>
    /\ Top.fn \in {"Direction::from", "Into::into"}
    /\ Len(call_stack) >= StackLimit
    /\ call_stack' = <<Frame("abort")>>
    /\ UNCHANGED <<converted, returned>>

NextConv ==
    /\ \/ FromCallsInto
       \/ IntoCallsFrom
       \/ ToDirReturns
       \/ StackOverflow
    /\ UNCHANGED <<gameVars, timerVars>>

SpecConv == InitConv /\ [][NextConv]_vars /\ WF_vars(NextConv)

---------------------------------------------------------------------------
(* The clearing specification: rows are in their clear animation and the game is  *)
(* left to itself.  A tick is one update followed by one draw, so that every      *)
(* timer on the board is advanced once per tick; ticks never stop.  Every piece   *)
(* that Tetrinome::new returns is the flat I at column 4: dropped by gravity on   *)
(* columns 4..7 these pieces pile up and, once the pile stands, fill no row.      *)

ClearScenarios ==
    {RowClearing(0), TwoRowsStacked(45), TwoRowsApart(1, 45)}

InitClear ==
    /\ \E w \in ClearScenarios : Start(w)
    /\ TimerIdle
    /\ ConvIdle

ClearTick ==
    /\ \E w \in {draw(update(World, IH(4)))} :
          /\ data' = w.data
          /\ rows_full' = w.rows_full
          /\ curr_piece' = w.curr_piece
          /\ instant_drop' = w.instant_drop
          /\ fall_update' = w.fall_update
          /\ ELAPSED' = w.ELAPSED
    /\ last_call' = Called("Tick", "Down", "None")
    /\ stale' = Max({0, stale - Len(ready_rows(blocks_of(World)))})
    /\ UNCHANGED <<steps, timerVars, convVars>>

NextClear == ClearTick

SpecClear == InitClear /\ [][NextClear]_vars /\ WF_vars(NextClear)

---------------------------------------------------------------------------
(* The timer specification: a FrameTimer on its own, advanced by state() calls. *)
(* The game passes get_elapsed(), which is MILLIS_PER_UPDATE, on every call; the *)
(* other values (none, and a whole frame) exercise the other paths of state().  *)

TimerInputs ==
    {clear_timer}
    \cup {equal_sized(n, duration, delay) :
             n \in 0..MaxFrames,
             duration \in {0, MILLIS_PER_UPDATE, FRAME_DURATION},
             delay \in {0, MILLIS_PER_UPDATE}}

Elapsed == {0, MILLIS_PER_UPDATE, FRAME_DURATION}

InitTimer ==
    /\ Start(game_new(IH(4)))
    /\ ft \in TimerInputs
    /\ calls = 0
    /\ uniform = TRUE
    /\ last_state = None
    /\ readies = 0
    /\ ConvIdle

Advance(elapsed) ==
    /\ calls < MaxCalls
    /\ \E r \in {state(ft, elapsed)} :
          /\ ft' = r.timer
          /\ last_state' = Some(r.state)
          /\ readies' = readies + (IF r.state = "Ready" THEN 1 ELSE 0)
    /\ calls' = calls + 1
    /\ uniform' = (uniform /\ elapsed = MILLIS_PER_UPDATE)
    /\ UNCHANGED <<gameVars, convVars>>

NextTimer == \E elapsed \in Elapsed : Advance(elapsed)

SpecTimer == InitTimer /\ [][NextTimer]_vars

---------------------------------------------------------------------------
(* Vocabulary of the properties *)

Rows == 0..(HEIGHT - 1)
Columns == 0..(WIDTH - 1)

HasTimer(d, p) == IsSome(d[p]) /\ IsSome(Unwrap(d[p]).frame_timer)
TimerDone(d, p) == get_state(Unwrap(Unwrap(d[p]).frame_timer)) = "Done"

\* Every cell of the row carries a clear timer: the row is in its clear animation
Clearing(d, row) == \A p \in RowSlots(row) : HasTimer(d, p)

\* The row is in its clear animation and every timer in it peeks Done
DoneRow(d, row) == \A p \in RowSlots(row) : HasTimer(d, p) /\ TimerDone(d, p)

RowEmpty(d, row) == \A p \in RowSlots(row) : d[p] = None

\* The slots holding a block whose timer does not peek Done
Pending(d) == {p \in DOMAIN d : HasTimer(d, p) /\ ~TimerDone(d, p)}

Occupied(d) == {p \in DOMAIN d : d[p] # None}

\* Every entry of the queue names a row of the board that is in its clear animation
QueueValid(b) ==
    \A k \in 1..Len(b.rows_full) :
        b.rows_full[k] \in Rows /\ Clearing(b.data, b.rows_full[k])

\* The empty rows above row r
EmptyAbove(d, r) == {y \in 0..(r - 1) : RowEmpty(d, y)}

\* A block one row lower: the same colour and timer, the coordinate's y one more
Lowered(o) ==
    IF o = None THEN None
    ELSE Some([Unwrap(o) EXCEPT !.bone.coord.y = Unwrap(o).bone.coord.y + 1])

\* The board finish_clear holds before the k-th iteration of its second loop
BeforeScan(b, ready, k) ==
    drop_all_ready([b EXCEPT !.data = clear_ready(b.data, ready)], SubSeq(ready, 1, k - 1))

---------------------------------------------------------------------------
(* Line clears *)

\* C1: finish_clear blanks no cell whose timer does not peek Done, and it leaves no
\* row on the board whose cells all carry timers that peek Done.
C1_ClearCompletionGating ==
    \A b \in {blocks_of(World)} : \A post \in {finish_clear(b)} :
        /\ Cardinality(Pending(post.data)) = Cardinality(Pending(b.data))
        /\ \A row \in Rows : ~DoneRow(post.data, row)

\* C2: when every entry of rows_full names a row in its clear animation, every entry
\* left after finish_clear (after its calls of drop_row_down) still names such a row.
C2_QueueIndexValid ==
    \A b \in {blocks_of(World)} :
        QueueValid(b) => QueueValid(finish_clear(b))

\* C5: no row index appears more than once in the clearing queue.
C5_EnqueuedOnce ==
    \A i \in 1..Len(rows_full) : \A j \in 1..Len(rows_full) :
        i # j => rows_full[i] # rows_full[j]

\* C7: when finish_clear removes a single ready row r, the cells of the run of non-empty
\* rows directly above r end one row lower with their colour and timer, the rows below
\* r are unchanged and the occupied slots decrease by the number of cells of row r.
C7_CompactionByOneRow ==
    \A b \in {blocks_of(World)} : \A ready \in {ready_rows(b)} :
        Len(ready) = 1 =>
            \A r \in {ready[1]} : \A post \in {finish_clear(b).data} :
            \A e \in {Max(EmptyAbove(b.data, r) \cup {-1})} :
                /\ \A y \in (e + 1)..(r - 1) : \A x \in Columns :
                       post[(y + 1) * WIDTH + x] = Lowered(b.data[y * WIDTH + x])
                /\ \A p \in ((r + 1) * WIDTH)..(SIZE - 1) : post[p] = b.data[p]
                /\ Cardinality(Occupied(post))
                     = Cardinality(Occupied(b.data)) - Cardinality(Occupied(b.data) \cap RowSlots(r))

\* A single ready row with cells in the row above it, which finish_clear lowers
C7_Witness ==
    \A b \in {blocks_of(World)} : \A ready \in {ready_rows(b)} :
        /\ Len(ready) = 1
        /\ DoneRow(b.data, ready[1])
        /\ ~RowEmpty(b.data, ready[1] - 1)
        /\ RowEmpty(finish_clear(b).data, ready[1] - 1)
        /\ ~RowEmpty(finish_clear(b).data, ready[1])

\* C8: no occupied cell lies in a row above a completely empty row.
C8_NoFloatingRows ==
    \A y \in Rows : RowEmpty(data, y) => \A above \in 0..(y - 1) : RowEmpty(data, above)

\* C9: in each iteration of the second loop of finish_clear, the first empty row the
\* upward scan meets, and every row above it, is left as it was.
C9_StopsAtFirstEmptyRow ==
    \A b \in {blocks_of(World)} : \A ready \in {ready_rows(b)} :
        \A k \in 1..Len(ready) :
            \A pre \in {BeforeScan(b, ready, k)} :
            \A post \in {drop_ready(pre, ready[k])} :
            \A E \in {EmptyAbove(pre.data, ready[k])} :
                E # {} => \A p \in 0..(Max(E) * WIDTH + WIDTH - 1) : post.data[p] = pre.data[p]

\* A scan of finish_clear meets an empty row that has cells above it
C9_Witness ==
    \A b \in {blocks_of(World)} : \A ready \in {ready_rows(b)} :
        \E k \in 1..Len(ready) :
            \A pre \in {BeforeScan(b, ready, k)} :
            \A E \in {EmptyAbove(pre.data, ready[k])} :
                /\ E # {}
                /\ \E y \in 0..(Max(E) - 1) : ~RowEmpty(pre.data, y)
                /\ drop_ready(pre, ready[k]).data = pre.data

---------------------------------------------------------------------------
(* ClearBoard *)

InSpawnPose(piece) == piece \in AllSpawns

\* C10 as stated: after Key::Q is handled every slot of the board is empty and the
\* current piece is a newly spawned one.
C10_ClearBoardRespawns ==
    last_call.op = "Q" =>
        /\ \A p \in DOMAIN data : data[p] = None
        /\ InSpawnPose(curr_piece)

\* C10 as the code has it: handling Key::Q empties every slot of the board and leaves
\* the current piece, the clearing queue and the drop animation as they were.
C10_ClearBoardKeepsPiece ==
    \A w \in {event_q(World)} :
        /\ \A p \in DOMAIN w.data : w.data[p] = None
        /\ w.curr_piece = curr_piece
        /\ w.rows_full = rows_full
        /\ w.instant_drop = instant_drop
        /\ last_call.op = "Q" => \A p \in DOMAIN data : data[p] = None

\* Key::Q was handled on a board with blocks while the piece was below its spawn rows
C10_Witness ==
    /\ last_call.op = "Q"
    /\ ~InSpawnPose(curr_piece)
    /\ rows_full # <<>>
    /\ \A p \in DOMAIN data : data[p] = None

---------------------------------------------------------------------------
(* Collisions and wall kicks *)

BoneIds == 0..(TETRINOME_SIZE - 1)

\* The coordinate is on the board, over an occupied slot
OverBlock(d, c) == c.x \in Columns /\ c.y \in Rows /\ d[coord_to_pos(c, WIDTH)] # None

\* Every cell of the piece is between the walls, above the floor and over no block
PoseClear(d, piece) ==
    \A i \in BoneIds :
        /\ piece.bones[i].coord.x \in Columns
        /\ piece.bones[i].coord.y < HEIGHT
        /\ ~OverBlock(d, piece.bones[i].coord)

\* C3: a candidate with one cell at x = -1 and another cell over an occupied slot
\* collides Left, for every direction and rotation a key asks for.
C3_CollisionPriority ==
    \A key \in Keys :
        \A cand \in {candidate(curr_piece, key_to_dir(key), key_to_rot(key))} :
            (/\ \E i \in BoneIds : cand.bones[i].coord.x = -1
             /\ \E j \in BoneIds : OverBlock(data, cand.bones[j].coord))
                => check_collision(data, cand, key_to_dir(key), key_to_rot(key)) = "Left"

\* C4: when move_if is called with a rotation and the rotated candidate collides Left or
\* Right, the candidate is shifted get_width()/2 cells away from the collision; the
\* shifted pose becomes the current piece if it is clear, the current piece stays as it
\* was if not; the board is unchanged and move_if returns false.
C4_WallKick ==
    \A rot \in {"CW", "CCW"} : \A g \in {grid_of(World)} :
    \A cand \in {candidate(g.curr_piece, "None", rot)} :
    \A col \in {check_collision(g.data, cand, "None", rot)} :
        col \in {"Left", "Right"} =>
            \A r \in {move_if(g, "None", rot, IH(4))} :
            \A shifted \in {trans_change(cand,
                               Coord((IF col = "Left" THEN 1 ELSE -1) * (get_width(cand) \div 2), 0))} :
                /\ r.ret = FALSE
                /\ r.grid.data = data
                /\ r.grid.rows_full = rows_full
                /\ r.grid.curr_piece = IF PoseClear(data, shifted) THEN shifted ELSE curr_piece

\* A rotation collides with the left wall and the pose two cells to the right is taken
C4_Witness ==
    \E rot \in {"CW", "CCW"} : \A g \in {grid_of(World)} :
    \A cand \in {candidate(g.curr_piece, "None", rot)} :
        /\ check_collision(g.data, cand, "None", rot) = "Left"
        /\ get_width(cand) \div 2 = 2
        /\ move_if(g, "None", rot, IH(4)).grid.curr_piece = trans_change(cand, Coord(2, 0))
        /\ move_if(g, "None", rot, IH(4)).grid.curr_piece # curr_piece

\* A rotation collides and the shifted pose is blocked: the rotation is discarded
C4_Discarded ==
    \E rot \in {"CW", "CCW"} : \A g \in {grid_of(World)} :
    \A cand \in {candidate(g.curr_piece, "None", rot)} :
        /\ check_collision(g.data, cand, "None", rot) \in {"Left", "Right"}
        /\ cand # curr_piece
        /\ move_if(g, "None", rot, IH(4)).grid.curr_piece = curr_piece

---------------------------------------------------------------------------
(* The clear animation *)

\* ft is a timer start_clear attached, advanced by MILLIS_PER_UPDATE on every call
ClearTimerTicking == ft.frames = clear_timer.frames /\ ft.delay = clear_timer.delay /\ uniform

\* The first frame ends on the first call (the delay is zero); each of the others
\* ends when FRAME_DURATION has passed
TicksToDone == 1 + (N_FRAMES - 1) * (FRAME_DURATION \div MILLIS_PER_UPDATE)

\* C6 as stated: a timer attached by start_clear, advanced once per tick by
\* MILLIS_PER_UPDATE, is Done from TOTAL_ANIM_TIME / FRAME_DURATION (16) ticks on
\* and not before.
C6_DoneAfterFrameCount ==
    ClearTimerTicking => (get_state(ft) = "Done" <=> calls >= TOTAL_ANIM_TIME \div FRAME_DURATION)

\* C6 as the code has it: the timer peeks Done from 1 + 15 * 3 = 46 advances on and not
\* before, and state() returns Done from the call after that on.
C6_DoneAfterAllFrames ==
    ClearTimerTicking =>
        /\ get_state(ft) = "Done" <=> calls >= TicksToDone
        /\ last_state = Some("Done") <=> calls >= TicksToDone + 1

\* The 46th advance of a clear timer has just ended its last frame
C6_Witness ==
    /\ ClearTimerTicking
    /\ calls = TicksToDone
    /\ last_state = Some("Ready")
    /\ get_state(ft) = "Done"

---------------------------------------------------------------------------
(* The frame timer *)

\* C16: once next equals the frame count, state() returns Done for every elapsed value
\* and leaves every field of the timer as it was, and get_state returns Done.
C16_DoneIsTerminal ==
    is_done(ft) =>
        /\ get_state(ft) = "Done"
        /\ \A elapsed \in Elapsed : state(ft, elapsed) = [state |-> "Done", timer |-> ft]

\* A timer with frames, run to its end and advanced again after that
C16_Witness ==
    /\ is_done(ft)
    /\ Len(ft.frames) > 0
    /\ last_state = Some("Done")

\* C17: get_state returns what state() returns when no time is added (get_state takes
\* the timer by shared reference: it returns the classification and nothing else).
C17_PeekMatchesAdvance ==
    get_state(ft) = state(ft, 0).state

\* An advance has been made and get_state finds the current frame over
C17_Witness ==
    /\ calls > 0
    /\ ~is_done(ft)
    /\ get_state(ft) = "Ready"
    /\ state(ft, 0).state = "Ready"

\* The accumulated time ends the current frame: more than the delay for the first
\* frame, at least the frame's duration for the others
FrameOver(t, acc) ==
    \/ t.next = 0 /\ acc > t.delay
    \/ t.next > 0 /\ acc >= t.frames[t.next + 1]

\* C20: on a timer that is not done, state(elapsed) adds elapsed to last_update; if
\* that ends the current frame it returns Ready, increments next by one and resets
\* last_update to 0, otherwise it returns Waiting and keeps next.  state() has
\* returned Ready once for every frame by the time it returns Done.
C20_AdvanceContract ==
    /\ \A elapsed \in Elapsed :
          ~is_done(ft) =>
              state(ft, elapsed) =
                  IF FrameOver(ft, ft.last_update + elapsed)
                  THEN [state |-> "Ready",
                        timer |-> [ft EXCEPT !.next = ft.next + 1, !.last_update = 0]]
                  ELSE [state |-> "Waiting",
                        timer |-> [ft EXCEPT !.last_update = ft.last_update + elapsed]]
    /\ readies <= Len(ft.frames)
    /\ last_state = Some("Done") => readies = Len(ft.frames)

\* A timer of MaxFrames frames with a delay has returned Waiting, Ready for each frame
\* and then Done
C20_Witness ==
    /\ Len(ft.frames) = MaxFrames
    /\ ft.delay > 0
    /\ readies = MaxFrames
    /\ calls > readies + 1
    /\ last_state = Some("Done")

---------------------------------------------------------------------------
(* Rotation *)

\* rot applied n times
RECURSIVE rotate_times(_, _, _)
rotate_times(piece, rot, n) ==
    IF n = 0 THEN piece ELSE rotate_times(rotate(piece, rot), rot, n - 1)

\* C13: for the current piece, of any kind and at any position, rotate(CW) then
\* rotate(CCW) and rotate(CCW) then rotate(CW) give back the piece, cell for cell, and
\* so do four rotations in one direction.
C13_RotationReversible ==
    /\ rotate(rotate(curr_piece, "CW"), "CCW") = curr_piece
    /\ rotate(rotate(curr_piece, "CCW"), "CW") = curr_piece
    /\ \A rot \in {"CW", "CCW"} : rotate_times(curr_piece, rot, 4) = curr_piece

\* A piece with a pivot, moved by a key, that a rotation changes
C13_Witness ==
    /\ last_call.op = "Key"
    /\ IsSome(curr_piece.pivot)
    /\ curr_piece.kind = "L"
    /\ rotate(curr_piece, "CW") # curr_piece
    /\ rotate(curr_piece, "CW") # rotate(curr_piece, "CCW")
    /\ rotate(rotate(curr_piece, "CW"), "CCW") = curr_piece

---------------------------------------------------------------------------
(* Full rows *)

\* The slots of occ whose coordinate lies in the row
InRow(occ, row) == {p \in occ : pos_to_coord(p, WIDTH).y = row}

\* The occupied slots of the board whose coordinate lies in the row
OccupiedInRow(d, row) == InRow(Occupied(d), row)

\* C18: for every row of the board, row_full is true exactly when WIDTH slots of the row
\* are occupied; a full row with any one of its blocks taken out is not full.
C18_RowFullDetection ==
    \A occ \in {Occupied(data)} : \A row \in Rows :
        /\ row_full(data, row) <=> Cardinality(InRow(occ, row)) = WIDTH
        /\ row_full(data, row) =>
              \A p \in RowSlots(row) : ~row_full([data EXCEPT ![p] = None], row)

\* The board holds a full row and a row missing exactly one slot
C18_Witness ==
    /\ \E row \in Rows : row_full(data, row) /\ Cardinality(OccupiedInRow(data, row)) = WIDTH
    /\ \E row \in Rows : ~row_full(data, row) /\ Cardinality(OccupiedInRow(data, row)) = WIDTH - 1

---------------------------------------------------------------------------
(* The result of move_if *)

\* The slots of the board the piece's cells map to (set_block skips negative positions)
PieceSlots(piece) ==
    {coord_to_pos(piece.bones[i].coord, WIDTH) : i \in BoneIds} \cap (0..(WIDTH * HEIGHT - 1))

\* Every cell of the piece that maps to a slot of the board is in that slot
Holds(d, piece) ==
    \A i \in BoneIds :
        coord_to_pos(piece.bones[i].coord, WIDTH) >= 0 =>
            /\ d[coord_to_pos(piece.bones[i].coord, WIDTH)] # None
            /\ Unwrap(d[coord_to_pos(piece.bones[i].coord, WIDTH)]).bone = piece.bones[i]

\* C15: for every key, move_if returns true exactly when the candidate collides Under;
\* it has then written the current piece into the board and spawned the next one.  When
\* it returns false the cell array and the clearing queue are as they were.
C15_MoveIfResult ==
    \A key \in Keys : \A g \in {grid_of(World)} :
    \A r \in {move_if(g, key_to_dir(key), key_to_rot(key), IH(4))} :
        /\ r.ret \in BOOLEAN
        /\ r.ret <=> commits(g, key_to_dir(key), key_to_rot(key))
        /\ r.ret =>
              /\ PieceSlots(g.curr_piece) # {}
              /\ Holds(r.grid.data, g.curr_piece)
              /\ \A p \in DOMAIN data \ PieceSlots(g.curr_piece) :
                    (r.grid.data[p] = None) <=> (data[p] = None)
              /\ r.grid.curr_piece = IH(4)
        /\ ~r.ret => r.grid.data = data /\ r.grid.rows_full = rows_full

\* In one state the Down key commits the piece into free slots, and the Left key moves it
C15_Witness ==
    \A g \in {grid_of(World)} :
        /\ move_if(g, "Down", "None", IH(4)).ret
        /\ ~Holds(data, curr_piece)
        /\ Holds(move_if(g, "Down", "None", IH(4)).grid.data, curr_piece)
        /\ ~move_if(g, "Left", "None", IH(4)).ret
        /\ move_if(g, "Left", "None", IH(4)).grid.curr_piece # curr_piece

\* A rotation key commits the piece: the rotated candidate reaches below the floor
C15_RotationCommits ==
    \E key \in {"Up", "Z"} : \A g \in {grid_of(World)} :
        /\ move_if(g, "None", key_to_rot(key), IH(4)).ret
        /\ move_if(g, "None", key_to_rot(key), IH(4)).grid.data # data

---------------------------------------------------------------------------
(* Commits *)

\* C12: whenever move_if commits the current piece, for a key or for the gravity move
\* of Game::update, every slot commit_piece writes is empty before the write.
C12_NoCollisionAtCommit ==
    \A key \in Keys : \A g \in {grid_of(World)} :
        commits(g, key_to_dir(key), key_to_rot(key)) =>
            \A p \in PieceSlots(g.curr_piece) : g.data[p] = None

---------------------------------------------------------------------------
(* ClearBoard and the clearing queue *)

\* The entries of the queue that were made before the last ClearBoard
StaleEntries == SubSeq(rows_full, 1, stale)

\* C11: the queue entries made before a ClearBoard have no effect on the board
\* afterwards: finish_clear run on those entries blanks and moves no cell.
C11_ClearBoardAbandonsClears ==
    stale > 0 => finish_clear([data |-> data, rows_full |-> StaleEntries]).data = data

---------------------------------------------------------------------------
(* The order of an update tick *)

\* The rows of the queue whose timers are all Done
ReadyRows(w) == {w.rows_full[k] : k \in {j \in 1..Len(w.rows_full) : row_ready(w.data, w.rows_full[j])}}

\* The gravity move is due in the next update
FallDue(w) == timer_fall(timer_update(w.fall_update).fall_update).ret

\* C14: Game::update leaves the grid that move_if(Down, None) makes of the grid
\* finish_clear has left (and that grid itself when the piece does not fall in this
\* tick): the ready rows are blanked and the rows above them lowered before the
\* collision check of the gravity move is made.
C14_ClearBeforeGravity ==
    \A w \in {World} :
    \A cleared \in {with_blocks(grid_of(w), finish_clear(blocks_of(w)))} :
        grid_of(update(w, IH(4))) =
            IF FallDue(w) THEN move_if(cleared, "Down", "None", IH(4)).grid ELSE cleared

\* An update has removed a ready row from under the piece and then moved the piece
\* down: the piece would have been committed had the move been made first
C14_Witness ==
    /\ last_call.op = "Update"
    /\ rows_full = <<>>
    /\ ~InSpawnPose(curr_piece)
    /\ \A w \in {ClearUnderPiece} :
          /\ FallDue(w)
          /\ ReadyRows(w) # {}
          /\ commits(grid_of(w), "Down", "None")
          /\ curr_piece = trans_change(w.curr_piece, Coord(0, 1))
          /\ data = finish_clear(blocks_of(w)).data

---------------------------------------------------------------------------
(* The clearing queue *)

\* The rows of the board that are in their clear animation
ClearingRows(d) == {row \in Rows : Clearing(d, row)}

\* The queue names every row in its clear animation once, and nothing else
QueueExact(b) ==
    /\ QueueValid(b)
    /\ \A row \in ClearingRows(b.data) :
          Cardinality({k \in 1..Len(b.rows_full) : b.rows_full[k] = row}) = 1

\* C19: the entries finish_clear takes off the front of the queue are the entries of
\* the rows it removes, in their order, so that no entry of a row that is not ready is
\* taken off; the queue it leaves names exactly the rows still in their animation.
C19_FifoDequeue ==
    \A b \in {blocks_of(World)} : \A ready \in {ready_rows(b)} :
        /\ SubSeq(b.rows_full, 1, Len(ready)) = ready
        /\ QueueExact(finish_clear(b))

---------------------------------------------------------------------------
(* The hard drop *)

\* The number of move_if(Down, None) calls the loop of finish_drop makes from grid g,
\* counted from n; the count stops at DropLimit + 1 when no commit was made by then
DropLimit == HEIGHT + 2

RECURSIVE drop_calls(_, _)
drop_calls(g, n) ==
    IF n > DropLimit THEN n
    ELSE IF move_if(g, "Down", "None", IH(4)).ret THEN n + 1
    ELSE drop_calls(move_if(g, "Down", "None", IH(4)).grid, n + 1)

\* C21: in every state the loop of finish_drop ends with a commit within HEIGHT + 2
\* calls of move_if(Down, None), and no call leaves the piece where it was without
\* committing it.
C21_HardDropTerminates ==
    \A g \in {grid_of(World)} :
        /\ ~drop_stuck(g)
        /\ drop_calls(g, 0) <= DropLimit
        /\ \A r \in {move_if(g, "Down", "None", IH(4))} :
              ~r.ret => r.grid.curr_piece = trans_change(g.curr_piece, Coord(0, 1))

\* A piece moved by a key from where the drop takes a call for each row of the board
C21_Witness ==
    /\ last_call.op = "Key"
    /\ drop_calls(grid_of(World), 0) >= HEIGHT
    /\ drop_calls(grid_of(World), 0) <= DropLimit

---------------------------------------------------------------------------
(* Full rows after a commit *)

\* Every full row of the board is in its clear animation and named by the queue
FullRowsQueued(d, rf) ==
    \A row \in Rows :
        row_full(d, row) =>
            /\ Clearing(d, row)
            /\ \E k \in 1..Len(rf) : rf[k] = row

\* C22: after a commit, made by move_if for a key or by the hard drop, every full row
\* of the board has a timer on each of its cells and its index is in rows_full.
C22_FullRowsAreClearing ==
    /\ \A key \in Keys : \A r \in {move_if(grid_of(World), key_to_dir(key), key_to_rot(key), IH(4))} :
          r.ret => FullRowsQueued(r.grid.data, r.grid.rows_full)
    /\ last_call.op = "Space" => FullRowsQueued(data, rows_full)

---------------------------------------------------------------------------
(* Sideways moves *)

\* C23: a move to the Left or to the Right without a rotation whose candidate collides
\* Left or Right changes nothing: the piece, the cells of the board and the clearing
\* queue are as they were, and move_if returns false.
C23_SidewaysNoOp ==
    \A dir \in {"Left", "Right"} : \A g \in {grid_of(World)} :
        check_collision(g.data, candidate(g.curr_piece, dir, "None"), dir, "None") \in {"Left", "Right"}
            => move_if(g, dir, "None", IH(4)) = [grid |-> g, ret |-> FALSE]

\* The piece is at a wall and a key has pushed it against the wall
C23_Witness ==
    /\ last_call.op = "Key"
    /\ last_call.dir \in {"Left", "Right"}
    /\ \E i \in BoneIds : curr_piece.bones[i].coord.x \in {0, WIDTH - 1}
    /\ check_collision(data, candidate(curr_piece, last_call.dir, "None"), last_call.dir, "None")
           = last_call.dir
    /\ move_if(grid_of(World), last_call.dir, "None", IH(4)).grid.curr_piece = curr_piece

\* A sideways move is blocked by a committed block, away from the walls
C23_BlockedByStack ==
    \E dir \in {"Left", "Right"} :
        /\ PoseClear(data, curr_piece)
        /\ \E i \in BoneIds :
              OverBlock(data, candidate(curr_piece, dir, "None").bones[i].coord)
        /\ move_if(grid_of(World), dir, "None", IH(4)).grid.curr_piece = curr_piece

---------------------------------------------------------------------------
(* Negative positions *)

\* The positions of the cells a piece can have above the board
NegativePos == (-3 * WIDTH)..(-1)

\* The cells of the piece at y >= 0
OnBoard(piece) == {i \in BoneIds : piece.bones[i].coord.y >= 0}

\* C24: set_block with a negative position leaves the array as it is and get_block
\* with a negative position returns None; commit_piece writes the cells of the current
\* piece at y >= 0 into their coord_to_pos slots and nothing else.
C24_NegativePosGuard ==
    /\ \A pos \in NegativePos :
          /\ set_block(data, pos, curr_piece.bones[0]) = data
          /\ get_block(data, pos) = None
    /\ \A post \in {commit_piece(grid_of(World)).data} :
          /\ \A i \in OnBoard(curr_piece) :
                post[coord_to_pos(curr_piece.bones[i].coord, WIDTH)] = Some(Block(curr_piece.bones[i]))
          /\ \A p \in DOMAIN data :
                (\A i \in OnBoard(curr_piece) : coord_to_pos(curr_piece.bones[i].coord, WIDTH) # p)
                    => post[p] = data[p]
          /\ DOMAIN post = DOMAIN data

\* A key has committed a piece that had cells above the board: the stack reaches the
\* top, and of the piece only the cells at y >= 0 are on the board
C24_Witness ==
    /\ last_call.op = "Key"
    /\ \A w \in {TopOut} :
          /\ OnBoard(w.curr_piece) # BoneIds
          /\ OnBoard(w.curr_piece) # {}
          /\ commits(grid_of(w), "Down", "None")
          /\ \A i \in OnBoard(w.curr_piece) :
                data[coord_to_pos(w.curr_piece.bones[i].coord, WIDTH)] # None
          /\ Cardinality(Occupied(data)) <= Cardinality(Occupied(w.data)) + Cardinality(OnBoard(w.curr_piece))
          /\ data # w.data

---------------------------------------------------------------------------
(* The cadence of gravity *)

\* The number of updates from one gravity move to the next
FallPeriod == FALL_RATE \div MILLIS_PER_UPDATE + 1

\* The time accumulated by the next update exceeds the fall rate
Exceeds == fall_update + MILLIS_PER_UPDATE > FALL_RATE

\* C25: an update moves the piece down (or commits it) exactly when the time
\* accumulated since the last gravity move, this tick included, exceeds FALL_RATE, and
\* the accumulator is then reset to 0; on every other update the accumulator grows by
\* MILLIS_PER_UPDATE and the piece stays.  From Game::new the accumulator is therefore
\* the number of updates modulo 9 times MILLIS_PER_UPDATE: gravity acts on every 9th.
C25_GravityCadence ==
    /\ [](fall_update = (steps % FallPeriod) * MILLIS_PER_UPDATE)
    /\ [][IF Exceeds
          THEN /\ fall_update' = 0
               /\ steps' % FallPeriod = 0
               /\ IF commits(grid_of(World), "Down", "None")
                  THEN InSpawnPose(curr_piece')
                  ELSE curr_piece' = trans_change(curr_piece, Coord(0, 1))
          ELSE /\ fall_update' = fall_update + MILLIS_PER_UPDATE
               /\ steps' % FallPeriod # 0
               /\ curr_piece' = curr_piece]_vars

\* The 18th update from Game::new has just moved the piece down for the second time
C25_Witness ==
    /\ last_call.op = "Update"
    /\ steps = 2 * FallPeriod
    /\ fall_update = 0
    /\ curr_piece \in {trans_change(p, Coord(0, 2)) : p \in AllSpawns}

---------------------------------------------------------------------------
(* The conversions *)

\* C26: every Collision -> Direction conversion, by Collision::to_dir and by
\* Direction::from alike, terminates and returns Left for Left, Right for Right,
\* Down for Under and None for None.
C26_ConversionsTotal ==
    <>(call_stack = <<>> /\ returned = Some(coll_to_dir(converted)))

\* The part that holds: the conversion by Collision::to_dir returns the mapping
C26_ToDirTotal ==
    (call_stack = <<Frame("Collision::to_dir")>>)
        ~> (call_stack = <<>> /\ returned = Some(coll_to_dir(converted)))

\* Direction::from has entered itself again, with nothing returned
C26_FromRecurses ==
    /\ Len(call_stack) >= 3
    /\ call_stack[1] = Frame("Direction::from")
    /\ call_stack[3] = Frame("Direction::from")
    /\ returned = None

---------------------------------------------------------------------------
(* The current piece and the playfield *)

\* Every cell of the piece is between the walls and above the floor
InField(piece) ==
    \A i \in BoneIds :
        /\ 0 <= piece.bones[i].coord.x
        /\ piece.bones[i].coord.x < WIDTH
        /\ piece.bones[i].coord.y < HEIGHT

\* C27: in every reachable state every cell of the current piece has
\* 0 <= x < WIDTH and y < HEIGHT.
C27_PieceInField == InField(curr_piece)

\* A move to the left was refused at the left wall, or a move down at the floor
C27_Witness ==
    /\ last_call.op = "Key"
    /\ \/ /\ last_call.dir = "Left"
          /\ \E i \in BoneIds : curr_piece.bones[i].coord.x = 0
          /\ ~InField(trans_change(curr_piece, Coord(-1, 0)))
       \/ /\ last_call.rot # "None"
          /\ \E i \in BoneIds : curr_piece.bones[i].coord.y = HEIGHT - 1

---------------------------------------------------------------------------
(* What move_if accepts *)

\* move_if(dir, rot) on grid g takes the candidate, or the kicked candidate, as the
\* current piece: the first check returns Collision::None, or the check of the kicked
\* rotation does
Accepted(g, dir, rot) ==
    \A c \in {check_collision(g.data, candidate(g.curr_piece, dir, rot), dir, rot)} :
        \/ c = "None"
        \/ /\ c \in {"Left", "Right"}
           /\ rot \in {"CCW", "CW"}
           /\ \A side \in {opposite(coll_to_dir(c))} :
                 check_collision(g.data,
                                 kick(candidate(g.curr_piece, dir, rot), side,
                                      get_width(candidate(g.curr_piece, dir, rot)) \div 2),
                                 side, "None") = "None"

\* Every cell of the piece is in the field and on no committed block
Legal(d, piece) ==
    /\ InField(piece)
    /\ \A i \in BoneIds : get_block(d, coord_to_pos(piece.bones[i].coord, WIDTH)) = None

\* C28: whenever move_if accepts a pose, for any direction and rotation, (None, None)
\* included, every cell of the new current piece is in the field and on an unoccupied
\* slot of the board.
C28_AcceptedPoseLegal ==
    \A key \in Keys : \A g \in {grid_of(World)} :
        Accepted(g, key_to_dir(key), key_to_rot(key)) =>
            Legal(g.data, move_if(g, key_to_dir(key), key_to_rot(key), IH(4)).grid.curr_piece)

\* The same with (None, None) left out
C28_MovedPoseLegal ==
    \A key \in Keys \ {"Other"} : \A g \in {grid_of(World)} :
        Accepted(g, key_to_dir(key), key_to_rot(key)) =>
            Legal(g.data, move_if(g, key_to_dir(key), key_to_rot(key), IH(4)).grid.curr_piece)

\* A key that is neither a move nor a rotation was accepted for a piece that lies on
\* committed blocks
C28_OverlapAccepted ==
    /\ last_call.op = "Key"
    /\ last_call.dir = "None"
    /\ last_call.rot = "None"
    /\ InField(curr_piece)
    /\ ~Legal(data, curr_piece)

---------------------------------------------------------------------------
(* Compaction and the falling piece *)

\* The slots of the piece that are empty in d and hold a block in e
MovedOnto(d, e, piece) ==
    {p \in PieceSlots(piece) : d[p] = None /\ e[p] # None}

\* C29: finish_clear never moves a committed block into a slot on which a cell of
\* the current falling piece lies.
C29_CompactionAvoidsPiece ==
    MovedOnto(data, finish_clear(blocks_of(World)).data, curr_piece) = {}

\* An update has run finish_clear and blocks now lie on cells of the piece that were
\* free when the piece was moved there
C29_BlocksOnPiece ==
    /\ last_call.op = "Update"
    /\ \E p \in PieceSlots(curr_piece) : data[p] # None

---------------------------------------------------------------------------
(* When a piece is committed *)

\* One row further down the piece would be through the floor or on a block
RestsOn(d, piece) ==
    \E i \in BoneIds :
        \/ piece.bones[i].coord.y + 1 >= HEIGHT
        \/ get_block(d, coord_to_pos(trans_change(piece, Coord(0, 1)).bones[i].coord, WIDTH)) # None

\* C30: move_if commits the piece only for a downward move that is blocked: a call
\* with a rotation or a sideways direction never commits, and the piece committed
\* rests on the floor or on a block.
C30_CommitOnlyWhenBlocked ==
    \A key \in Keys : \A g \in {grid_of(World)} :
        commits(g, key_to_dir(key), key_to_rot(key)) =>
            /\ key_to_dir(key) = "Down"
            /\ key_to_rot(key) = "None"
            /\ RestsOn(g.data, g.curr_piece)

\* The part that holds: a sideways move never commits, and a piece committed by a
\* downward move rests on the floor or on a block
C30_MovesCommitWhenBlocked ==
    \A key \in {"Down", "Left", "Right"} : \A g \in {grid_of(World)} :
        commits(g, key_to_dir(key), key_to_rot(key)) =>
            /\ key = "Down"
            /\ RestsOn(g.data, g.curr_piece)

\* A rotation has committed a piece that was resting on nothing
C30_FloatingCommit ==
    /\ last_call.op = "Key"
    /\ last_call.rot # "None"
    /\ \E row \in 0..(HEIGHT - 2) :
          /\ OccupiedInRow(data, row) # {}
          /\ \A p \in OccupiedInRow(data, row) : data[p + WIDTH] = None

---------------------------------------------------------------------------
(* Slots and the coordinates stored in them *)

\* The block in slot p carries the coordinate of slot p
AtOwnSlot(d, p) ==
    \A c \in {Unwrap(d[p]).bone.coord} :
        /\ 0 <= c.x /\ c.x < WIDTH
        /\ 0 <= c.y /\ c.y < HEIGHT
        /\ coord_to_pos(c, WIDTH) = p

\* C32: in every reachable state every occupied slot p of the board holds a block
\* whose coordinate has 0 <= x < WIDTH, 0 <= y < HEIGHT and x + y * WIDTH = p.
C32_SlotCoordConsistent ==
    \A p \in Occupied(data) : AtOwnSlot(data, p)

\* An update has removed the finished bottom row and lowered the upper half of the O
\* from row 18 to row 19
C32_Witness ==
    /\ last_call.op = "Update"
    /\ rows_full = <<>>
    /\ Occupied(data) = {coord_to_pos(Coord(8, HEIGHT - 1), WIDTH),
                         coord_to_pos(Coord(9, HEIGHT - 1), WIDTH)}
    /\ \A p \in Occupied(data) : Unwrap(data[p]).bone.coord.y = HEIGHT - 1

---------------------------------------------------------------------------
(* The end of the clear animations *)

\* No block carries a frame timer and the clearing queue is empty
NothingClearing ==
    /\ rows_full = <<>>
    /\ \A p \in DOMAIN data : ~HasTimer(data, p)

\* C31: with ticks that never stop, each advancing every timer once, and no new row
\* filling in the end, every row given timers by start_clear is blanked by finish_clear:
\* from some tick on no block carries a frame timer and the clearing queue is empty.
C31_ClearingCompletes == <>[]NothingClearing

\* The part that holds: a single clearing row, named by the only queue entry, is blanked
C31_SingleRowCleared ==
    (Len(rows_full) = 1 /\ QueueExact(blocks_of(World))) ~> NothingClearing

\* A row whose timers are all Done is left on the board with the queue empty
C31_RowLeftBehind ==
    /\ last_call.op = "Tick"
    /\ rows_full = <<>>
    /\ \E row \in Rows :
          /\ Clearing(data, row)
          /\ \A p \in RowSlots(row) : TimerDone(data, p)

====
